---- MODULE Spec2Model ----
(***************************************************************************)
(* EternalPulse scanner (src/scanner.py): the genetic fuzzing engine       *)
(* (GeneticFuzzer), the fuzzing run (_run_fuzzing) and the scan scheduler  *)
(* (scan / scan_target) as state machines.                                 *)
(*                                                                         *)
(* Byte strings.  A payload is a sequence of bytes over the small alphabet *)
(* Byte.  A response is a sequence of tokens; every token stands for one   *)
(* fixed byte string (TokBytesLen gives its length), so that len(),        *)
(* startswith() and the `in` test of the code are computed on responses.   *)
(* The filler tokens "x", "pad" and "big" are runs of a byte that occurs   *)
(* in no signature and in no error phrase.                                 *)
(***************************************************************************)
EXTENDS Integers, Sequences, FiniteSets, TLC

VARIABLES
    protocol,         \* GeneticFuzzer.protocol of the fuzzer under study
    population,       \* GeneticFuzzer.population: sequence of payloads
    responses,        \* _run_fuzzing's dict payload -> response
    pc,               \* position of the control flow
    idx,              \* position of the running `for payload in population`
    generation,       \* number of evolve() calls that have returned
    fitness_scores,   \* evolve(): dict payload -> score
    new_population,   \* evolve(): the list under construction
    returned,         \* the value the last evolve() call returned
    fuzzing_results,  \* scanner.fuzzing_results[host]: dict port -> record
    inflight,         \* the socket interaction of the running try block
    oracle_log,       \* history: what the oracle has done so far in the run
    call,             \* a call of a pure function: its arguments and result
    scan_pc,          \* scan(): position of the calling thread
    futures,          \* scan(): future_to_target, the state of every future
    results,          \* scan(): the dict target -> result under construction
    counters,         \* scanner.evasion_engine.counters: technique -> count
    host_maps,        \* the hosts with an entry in the scanner's per-host dicts
    wpc,              \* scan_target(target): position of the worker thread
    wtech,            \* scan_target(target): index of the technique at hand
    wreg,             \* scan_target(target): the counter value last loaded
    activations       \* history: how often each technique was activated

fuzzVars == <<protocol, population, responses, pc, idx, generation,
              fitness_scores, new_population, returned, fuzzing_results,
              inflight, oracle_log>>

scanVars == <<scan_pc, futures, results, counters, host_maps, wpc, wtech, wreg,
              activations>>

vars == <<fuzzVars, call, scanVars>>

(***************************************************************************)
(* Bounds of the model.                                                    *)
(***************************************************************************)
\* largest byte value of a payload byte (the code: 255)
MaxByte == 1
\* length of the protocol templates (the code: 13, 15, 37 and 128 bytes)
TemplateLen == 4
\* GeneticFuzzer.population_size (the code: 50)
PopulationSize == 2
\* GeneticFuzzer.generations (the code: 10)
Generations == 1
\* longest response, in tokens, given to fitness()
MaxRespTokens == 2
\* number of targets handed to scan()
NumTargets == 2
\* EternalPulseScanner.workers, the width of the thread pool (the code: 100)
Workers == 2
\* longest payload handed to crossover() and mutate() with every content
MaxOpLen == 4
\* longest all-zero payload handed to mutate()
LongPayloadLen == 14
\* largest number of techniques one select_techniques() call of
\* apply_evasion activates
MaxActivated == 2
\* number of entries of self.tcp_ports (the code: 19 or 28 by default)
NumPorts == 2
\* largest timeout, in seconds, a scanner is constructed with (default: 3)
MaxTimeout == 3
\* longest of the short packets handed to morph_traffic()
MaxPacketLen == 16
\* largest value of MAX_RETRIES (the code: 5, or --max-retries)
MaxRetries == 3
\* largest --limit / --max of the refinement scripts
MaxLimit == 2

(***************************************************************************)
(* Program constants.                                                      *)
(***************************************************************************)
ShortLen == 10
LongLen == 1024
LenAnomalyScore == 25
ErrorPhraseScore == 15
ViolationScore == 20
JitterMax == 10
AnomalyThreshold == 50
\* the largest value struct.pack(">H", ...) accepts
UShortMax == 65535
\* sock.settimeout(2) in _run_fuzzing
FuzzSocketTimeout == 2
\* --threshold default 0.2, in hundredths
DefaultThreshold == 20
\* diff ratios of two different texts, in hundredths: one under the default
\* threshold, one over it
SmallRatio == 5
LargeRatio == 60
\* --diff default 1.0 percent, in tenths of a percent
DefaultDiff == 10
\* calculate_improvement: 100.0 for an empty text; for two different texts
\* one value under the default --diff and one over it
FullImprovement == 1000
SmallImprovement == 5
LargeImprovement == 300

Byte == 0..MaxByte

Min(a, b) == IF a < b THEN a ELSE b

Max(a, b) == IF a > b THEN a ELSE b

SeqSum(f, s) ==
    LET RECURSIVE Go(_)
        Go(i) == IF i = 0 THEN 0 ELSE f[s[i]] + Go(i - 1)
    IN Go(Len(s))

SeqsUpTo(S, n) == UNION {[1..k -> S] : k \in 0..n}

Range(s) == {s[i] : i \in DOMAIN s}

(***************************************************************************)
(* Responses.                                                              *)
(***************************************************************************)
SigTokens == {"\\xffSMB", "\\xfeSMB", "\\x03\\x00\\x00", "HTTP/", "SSH-"}

ErrorPhrases == {"error", "exception", "fail", "invalid", "crash"}

FillerTokens == {"x", "pad", "big"}

Tokens == SigTokens \cup ErrorPhrases \cup {"ERROR"} \cup FillerTokens

\* the number of bytes of each token
TokBytesLen ==
    [t \in Tokens |->
        CASE t \in {"\\xffSMB", "\\xfeSMB", "SSH-"} -> 4
          [] t = "\\x03\\x00\\x00" -> 3
          [] t \in {"HTTP/", "error", "ERROR", "crash"} -> 5
          [] t = "exception" -> 9
          [] t = "fail" -> 4
          [] t = "invalid" -> 7
          [] t = "x" -> 1
          [] t = "pad" -> 12
          [] t = "big" -> 1100]

\* len(response)
RespLen(r) == SeqSum(TokBytesLen, r)

\* b"": the empty response
EmptyResponse == <<>>

\* phrase in response
Contains(r, phrase) == \E i \in DOMAIN r : r[i] = phrase

\* response.startswith(prefix), prefix a byte string
StartsWith(r, prefix) ==
    /\ Len(prefix) <= Len(r)
    /\ \A i \in DOMAIN prefix : r[i] = prefix[i]

Protocols == {"SMB", "RDP", "HTTP", "SSH", "unknown"}

\* PROTOCOL_SIGNATURES.get(protocol, b""): the SMB entry is a list of two
\* byte strings, the others are byte strings; a protocol without an entry
\* gets b"".
ProtocolSignatures(p) ==
    CASE p = "SMB" -> [kind |-> "list", val |-> <<<<"\\xffSMB">>, <<"\\xfeSMB">>>>]
      [] p = "RDP" -> [kind |-> "bytes", val |-> <<"\\x03\\x00\\x00">>]
      [] p = "HTTP" -> [kind |-> "bytes", val |-> <<"HTTP/">>]
      [] p = "SSH" -> [kind |-> "bytes", val |-> <<"SSH-">>]
      [] OTHER -> [kind |-> "bytes", val |-> <<>>]

Jitter == 0..JitterMax

\* GeneticFuzzer.fitness with the draw of random.randint(0, 10) as j.
\* bytes.startswith raises TypeError when its argument is a list.
Fitness(p, payload, response, j) ==
    LET len == RespLen(response)
        lenScore == IF len < ShortLen \/ len > LongLen THEN LenAnomalyScore ELSE 0
        errScore == ErrorPhraseScore *
                       Cardinality({ph \in ErrorPhrases : Contains(response, ph)})
        sig == ProtocolSignatures(p)
    IN  IF sig.kind = "list"
        THEN [exc |-> "TypeError", score |-> 0]
        ELSE [exc |-> "none",
              score |-> lenScore + errScore
                        + (IF ~StartsWith(response, sig.val) THEN ViolationScore ELSE 0)
                        + j]

(***************************************************************************)
(* GeneticFuzzer: templates and genetic operators.                         *)
(***************************************************************************)
Payloads == [1..TemplateLen -> Byte]

\* the draws of os.urandom(128) followed for the template of a protocol that
\* has none of its own
UrandomDraws ==
    {[i \in 1..TemplateLen |-> 0], [i \in 1..TemplateLen |-> (i + 1) % (MaxByte + 1)]}

\* get_protocol_template: a fixed byte string for SMB, RDP and HTTP, and
\* os.urandom(128), any byte string of that length, for every other protocol
Templates(p) ==
    CASE p = "SMB" -> {[i \in 1..TemplateLen |-> 0]}
      [] p = "RDP" -> {[i \in 1..TemplateLen |-> i % (MaxByte + 1)]}
      [] p = "HTTP" -> {[i \in 1..TemplateLen |-> MaxByte]}
      [] OTHER -> UrandomDraws

\* payload[idx] = random.randint(0, 255) with idx = random.randint(0, len - 1),
\* n times over, from any payload of S
RECURSIVE Overwrites(_, _)
Overwrites(S, n) ==
    IF n = 0 THEN S
    ELSE Overwrites(UNION {{[q EXCEPT ![i] = b] : i \in DOMAIN q, b \in Byte} : q \in S},
                    n - 1)

\* int(len(template) * 0.3)
NumInitMutations(len) == (len * 3) \div 10

\* initialize_population: population_size payloads, each the template with
\* int(len * 0.3) random positions overwritten
InitialPopulations(p) ==
    UNION {[1..PopulationSize -> Overwrites({t}, NumInitMutations(Len(t)))] :
              t \in Templates(p)}

\* mutant: at least two overwrites
NumMutations_AtLeastTwo(len) == Max(2, (len * 15) \div 100)

\* max(1, int(len(payload_arr) * self.mutation_rate)), mutation_rate = 0.15
NumMutations(len) == Max(1, (len * 15) \div 100)

\* mutant: a random byte is appended as well
Mutate_Appending(payload) ==
    {Append(q, b) : q \in Overwrites({payload}, NumMutations(Len(payload))), b \in Byte}

\* mutate: the payloads it can return
Mutate(payload) == Overwrites({payload}, NumMutations(Len(payload)))

\* crossover: random.randint(1, min_len - 1) raises ValueError on an empty
\* range; otherwise parent1[:split] + parent2[split:]
CrossoverRaises(parent1, parent2) == Min(Len(parent1), Len(parent2)) - 1 < 1

\* mutant: the split point drawn from 0..min_len - 1
Crossover_SplitFromZero(parent1, parent2) ==
    {SubSeq(parent1, 1, split) \o SubSeq(parent2, split + 1, Len(parent2)) :
        split \in 0..(Min(Len(parent1), Len(parent2)) - 1)}

Crossover(parent1, parent2) ==
    {SubSeq(parent1, 1, split) \o SubSeq(parent2, split + 1, Len(parent2)) :
        split \in 1..(Min(Len(parent1), Len(parent2)) - 1)}

EmptyMap == [x \in {} |-> x]

\* d[k] = v on a dict
Put(d, k, v) == [x \in DOMAIN d \cup {k} |-> IF x = k THEN v ELSE d[x]]

\* max(candidates, key=lambda x: x[1])[0]: the first of the maxima
Winner(scores, c1, c2) == IF scores[c2] > scores[c1] THEN c2 ELSE c1

(***************************************************************************)
(* The oracle: what one socket interaction of _run_fuzzing can yield.      *)
(***************************************************************************)
TransportOutcomes == {"ok", "timeout", "refused", "reset"}

\* a reply that starts with the protocol's signature and has a normal length
ConformantReply(p) ==
    CASE p = "SMB" -> <<"\\xfeSMB", "pad">>
      [] p = "RDP" -> <<"\\x03\\x00\\x00", "pad">>
      [] p = "HTTP" -> <<"HTTP/", "pad">>
      [] p = "SSH" -> <<"SSH-", "pad">>
      [] OTHER -> <<"pad">>

\* what sock.recv(4096) returns in the model: nothing (the peer closed), a
\* conformant reply, or one byte
OracleReplies(p) == {EmptyResponse, ConformantReply(p), <<"x">>}

\* a reply that is exactly a signature of the protocol
SignatureReplies(p) ==
    LET sig == ProtocolSignatures(p)
    IN  IF sig.kind = "list" THEN Range(sig.val) ELSE {sig.val}

\* the target of a run: a peer that may do anything, or, when the run is
\* set up against a stub, a peer that answers every payload with a signature
SignatureStub == [fn |-> "oracle stub", answers |-> "signature"]

OutcomesOf(target) == IF target.fn = "oracle stub" THEN {"ok"} ELSE TransportOutcomes

RepliesOf(target, p) ==
    IF target.fn = "oracle stub" THEN SignatureReplies(p) ELSE OracleReplies(p)

\* the draws of random.randint(0, 10) followed in a fuzzing run
RunJitter == {0, JitterMax}

\* mutant: a connection reset leaves no entry for the payload
Recorded_DropOnReset(resps, payload, outcome, reply) ==
    IF outcome = "reset" THEN resps
    ELSE Put(resps, payload, IF outcome = "ok" THEN reply ELSE EmptyResponse)

\* the try/except of lines 849-857 and 866-874: the response recorded for
\* the payload, the reply on success and b"" on any exception
Recorded(resps, payload, outcome, reply) ==
    Put(resps, payload, IF outcome = "ok" THEN reply ELSE EmptyResponse)

\* the protocols _detect_protocol can hand to _run_fuzzing ("SSH" stands for
\* the protocols with a byte-string signature and no template of their own)
RunProtocols == {"SMB", "RDP", "HTTP", "SSH"}

NoCall == [fn |-> "none"]

\* no byte has left for the target
NothingSent == [bytes |-> <<>>, transforms |-> <<>>]

NoSend == [outcome |-> "none", reply |-> <<>>, sent |-> NothingSent]

\* sock.sendall(payload), payload being the loop variable of
\* `for payload in fuzzer.population`: the bytes on the wire and the
\* functions the member went through on its way there.  A refused
\* connection fails in sock.connect, before anything is sent.
Sendall(payload, outcome) ==
    IF outcome = "refused" THEN NothingSent
    ELSE [bytes |-> payload, transforms |-> <<>>]

(***************************************************************************)
(* GeneticFuzzer.evolve, one action per step of its control flow.          *)
(***************************************************************************)
\* mutant: an empty response map yields an empty generation
EvolveOnEmpty_Fresh(pop) == <<>>

\* lines 304-305: what evolve returns for an empty response map
EvolveOnEmpty(pop) == pop

\* lines 304-311: the empty map returns self.population; otherwise the
\* fitness of every (payload, response) item, any of which may raise
EvolveBegin ==
    /\ pc = "evolve"
    /\ IF DOMAIN responses = {}
       THEN /\ pc' = "evolve_returned"
            /\ returned' = EvolveOnEmpty(population)
            /\ UNCHANGED <<fitness_scores, new_population>>
       ELSE \E jit \in [DOMAIN responses -> RunJitter] :
              LET fit == [q \in DOMAIN responses |->
                             Fitness(protocol, q, responses[q], jit[q])]
              IN  IF \E q \in DOMAIN fit : fit[q].exc # "none"
                  THEN /\ pc' = "raised"
                       /\ UNCHANGED <<fitness_scores, new_population, returned>>
                  ELSE /\ pc' = "evolve_loop"
                       /\ fitness_scores' = [q \in DOMAIN fit |-> fit[q].score]
                       /\ new_population' = <<>>
                       /\ UNCHANGED returned
    /\ UNCHANGED <<protocol, population, responses, idx, generation,
                   fuzzing_results, inflight, oracle_log, call, scanVars>>

\* the lists one pass of the while body (lines 313-328) can leave, from np
AfterCrossover(np) ==
    {np} \cup {Append(np, child) :
                 child \in UNION {Crossover(np[i], np[j]) : i, j \in DOMAIN np}}

AfterMutation(np) ==
    {np} \cup UNION {{[np EXCEPT ![k] = m] : m \in Mutate(np[k])} : k \in DOMAIN np}

\* random.sample(list(fitness_scores.items()), 2): two different items, in order
Samples(scores) == {c \in (DOMAIN scores) \X (DOMAIN scores) : c[1] # c[2]}

LoopBody(scores, np) ==
    UNION {UNION {AfterMutation(np2) :
                     np2 \in AfterCrossover(Append(np, Winner(scores, c[1], c[2])))} :
              c \in Samples(scores)}

\* one pass of `while len(new_population) < self.population_size`;
\* random.sample(items, 2) raises ValueError when there are fewer than 2 items
EvolveIterate ==
    /\ pc = "evolve_loop"
    /\ Len(new_population) < PopulationSize
    /\ IF Cardinality(DOMAIN fitness_scores) < 2
       THEN /\ pc' = "raised"
            /\ UNCHANGED new_population
       ELSE /\ new_population' \in LoopBody(fitness_scores, new_population)
            /\ pc' = pc
    /\ UNCHANGED <<protocol, population, responses, idx, generation,
                   fitness_scores, returned, fuzzing_results, inflight,
                   oracle_log, call, scanVars>>

\* line 330: return new_population
EvolveReturn ==
    /\ pc = "evolve_loop"
    /\ Len(new_population) >= PopulationSize
    /\ pc' = "evolve_returned"
    /\ returned' = new_population
    /\ fitness_scores' = EmptyMap
    /\ new_population' = <<>>
    /\ UNCHANGED <<protocol, population, responses, idx, generation,
                   fuzzing_results, inflight, oracle_log, call, scanVars>>

(***************************************************************************)
(* EternalPulseScanner._run_fuzzing.                                       *)
(***************************************************************************)
\* lines 850-854 and 867-871: the body of the try block for the payload at
\* idx, a fresh socket with settimeout, connect, sendall and recv; any of
\* them may fail
SocketExchange ==
    /\ pc \in {"init_test", "retest"}
    /\ idx <= Len(population)
    /\ inflight = NoSend
    /\ \E outcome \in OutcomesOf(call) :
         \E reply \in (IF outcome = "ok" THEN RepliesOf(call, protocol) ELSE {<<>>}) :
            inflight' = [outcome |-> outcome, reply |-> reply,
                         sent |-> Sendall(population[idx], outcome)]
    /\ UNCHANGED <<protocol, population, responses, pc, idx, generation,
                   fitness_scores, new_population, returned, fuzzing_results,
                   oracle_log, call, scanVars>>

\* the history of the oracle after one more interaction
Logged(log, outcome, reply) ==
    IF outcome # "ok" THEN log
    ELSE IF reply = EmptyResponse /\ log # "mixed" THEN "all_empty"
    ELSE "mixed"

\* lines 855 and 857 (872 and 874): responses[payload] = response, or b"" in
\* the except clause; the for loop moves on
RecordResponse ==
    /\ pc \in {"init_test", "retest"}
    /\ inflight # NoSend
    /\ responses' = Recorded(responses, population[idx], inflight.outcome,
                             inflight.reply)
    /\ oracle_log' = Logged(oracle_log, inflight.outcome, inflight.reply)
    /\ inflight' = NoSend
    /\ idx' = idx + 1
    /\ UNCHANGED <<protocol, population, pc, generation, fitness_scores,
                   new_population, returned, fuzzing_results, call, scanVars>>

\* line 860, `for generation in range(fuzzer.generations)`, once the running
\* for loop over the population is exhausted
NextGeneration ==
    /\ pc \in {"init_test", "retest"}
    /\ idx > Len(population)
    /\ pc' = IF generation < Generations THEN "evolve" ELSE "analyze"
    /\ UNCHANGED <<protocol, population, responses, idx, generation,
                   fitness_scores, new_population, returned, fuzzing_results,
                   inflight, oracle_log, call, scanVars>>

\* mutant: the map keeps the entries of the generation before
Cleared_Kept(resps) == resps

\* responses.clear()
Cleared(resps) == EmptyMap

\* lines 862-863: fuzzer.population = <what evolve returned>; responses.clear()
AssignPopulation ==
    /\ pc = "evolve_returned"
    /\ population' = returned
    /\ responses' = Cleared(responses)
    /\ generation' = generation + 1
    /\ idx' = 1
    /\ pc' = "retest"
    /\ UNCHANGED <<protocol, fitness_scores, new_population, returned,
                   fuzzing_results, inflight, oracle_log, call, scanVars>>

\* crashes = [p for p, r in responses.items() if not r]
Crashes(resps) == {q \in DOMAIN resps : resps[q] = EmptyResponse}

\* lines 876-889: the counts of the last response map, stored when any is
\* not zero; fitness() is called for every non-empty response and may raise
Analyze ==
    /\ pc = "analyze"
    /\ LET nonEmpty == DOMAIN responses \ Crashes(responses)
       IN \E jit \in [nonEmpty -> RunJitter] :
            LET fit == [q \in nonEmpty |-> Fitness(protocol, q, responses[q], jit[q])]
                anomalies == {q \in nonEmpty : fit[q].score > AnomalyThreshold}
            IN  IF \E q \in nonEmpty : fit[q].exc # "none"
                THEN /\ pc' = "raised"
                     /\ UNCHANGED fuzzing_results
                ELSE /\ pc' = "done"
                     /\ fuzzing_results' =
                          IF Crashes(responses) # {} \/ anomalies # {}
                          THEN Put(fuzzing_results, "port",
                                   [protocol |-> protocol,
                                    crashes |-> Cardinality(Crashes(responses)),
                                    anomalies |-> Cardinality(anomalies),
                                    tested_payloads |-> Len(population),
                                    generations |-> Generations])
                          ELSE fuzzing_results
    /\ UNCHANGED <<protocol, population, responses, idx, generation,
                   fitness_scores, new_population, returned, inflight,
                   oracle_log, call, scanVars>>

\* no scan() is under way
ScanIdle ==
    /\ scan_pc = "idle"
    /\ futures = EmptyMap
    /\ results = EmptyMap
    /\ counters = EmptyMap
    /\ host_maps = {}
    /\ wpc = EmptyMap
    /\ wtech = EmptyMap
    /\ wreg = EmptyMap
    /\ activations = EmptyMap

\* no fuzzing run is under way
FuzzIdle ==
    /\ protocol = "none"
    /\ population = <<>>
    /\ responses = EmptyMap
    /\ pc = "idle"
    /\ idx = 0
    /\ generation = 0
    /\ fitness_scores = EmptyMap
    /\ new_population = <<>>
    /\ returned = <<>>
    /\ fuzzing_results = EmptyMap
    /\ inflight = NoSend
    /\ oracle_log = "all_failed"

\* lines 840-845: a fresh GeneticFuzzer(protocol) and an empty response map
Init ==
    /\ ScanIdle
    /\ protocol \in RunProtocols
    /\ population \in InitialPopulations(protocol)
    /\ responses = EmptyMap
    /\ pc = "init_test"
    /\ idx = 1
    /\ generation = 0
    /\ fitness_scores = EmptyMap
    /\ new_population = <<>>
    /\ returned = <<>>
    /\ fuzzing_results = EmptyMap
    /\ inflight = NoSend
    /\ oracle_log = "all_failed"
    /\ call = NoCall

Next ==
    \/ SocketExchange
    \/ RecordResponse
    \/ NextGeneration
    \/ EvolveBegin
    \/ EvolveIterate
    \/ EvolveReturn
    \/ AssignPopulation
    \/ Analyze

Spec == Init /\ [][Next]_vars

(***************************************************************************)
(* GeneticFuzzer.fitness as a function: the inputs are drawn by the        *)
(* initial state, one action scores the response and one scores b"".       *)
(***************************************************************************)
Pending == [exc |-> "pending", score |-> 0]

FitnessResponses == SeqsUpTo(Tokens, MaxRespTokens)

FitnessInit ==
    /\ FuzzIdle
    /\ ScanIdle
    /\ \E p \in Protocols, r \in FitnessResponses :
         \E q \in Templates(p) :
           call = [fn |-> "fitness", protocol |-> p, payload |-> q, response |-> r,
                   out |-> Pending, out_empty |-> Pending]

\* fitness(payload, response)
CallFitness ==
    /\ call.out = Pending
    /\ \E j \in Jitter :
         call' = [call EXCEPT
                    !.out = Fitness(call.protocol, call.payload, call.response, j)]
    /\ UNCHANGED <<fuzzVars, scanVars>>

\* fitness(payload, b"")
CallFitnessEmpty ==
    /\ call.out_empty = Pending
    /\ \E j \in Jitter :
         call' = [call EXCEPT
                    !.out_empty = Fitness(call.protocol, call.payload, EmptyResponse, j)]
    /\ UNCHANGED <<fuzzVars, scanVars>>

FitnessNext == CallFitness \/ CallFitnessEmpty

SpecFitness == FitnessInit /\ [][FitnessNext]_vars

(***************************************************************************)
(* GeneticFuzzer.evolve called on its own: a fuzzer as constructed and any *)
(* response map over members of its population, the empty map included.    *)
(***************************************************************************)
ResponseMaps(pop, p) == UNION {[K -> OracleReplies(p)] : K \in SUBSET Range(pop)}

EvolveInit ==
    /\ ScanIdle
    /\ call = NoCall
    /\ protocol \in Protocols
    /\ population \in InitialPopulations(protocol)
    /\ responses \in ResponseMaps(population, protocol)
    /\ pc = "evolve"
    /\ idx = 0
    /\ generation = 0
    /\ fitness_scores = EmptyMap
    /\ new_population = <<>>
    /\ returned = <<>>
    /\ fuzzing_results = EmptyMap
    /\ inflight = NoSend
    /\ oracle_log = "all_failed"

EvolveNext == EvolveBegin \/ EvolveIterate \/ EvolveReturn

SpecEvolve == EvolveInit /\ [][EvolveNext]_vars

(***************************************************************************)
(* EternalPulseScanner.scan: one future per target on a pool of Workers    *)
(* threads, each running scan_target; the calling thread collects the      *)
(* futures as they complete.  The scanner, its EvasionEngine and its       *)
(* per-host dicts are one object shared by every worker thread.            *)
(***************************************************************************)
Targets == 1..NumTargets

\* the techniques select_techniques goes through, in the order of
\* technique_weights (the first two of the twelve)
ScanTechniques == <<"fragmentation", "protocol_tunneling">>

ScanInit ==
    /\ FuzzIdle
    /\ call = NoCall
    /\ scan_pc = "submit"
    /\ futures = [t \in Targets |-> "unsubmitted"]
    /\ results = EmptyMap
    /\ counters = [i \in DOMAIN ScanTechniques |-> 0]
    /\ host_maps = {}
    /\ wpc = [t \in Targets |-> "idle"]
    /\ wtech = [t \in Targets |-> 0]
    /\ wreg = [t \in Targets |-> 0]
    /\ activations = [i \in DOMAIN ScanTechniques |-> 0]

\* line 1032: executor.submit(self.scan_target, target), target after target
Submit(t) ==
    /\ scan_pc = "submit"
    /\ futures[t] = "unsubmitted"
    /\ \A u \in Targets : u < t => futures[u] # "unsubmitted"
    /\ futures' = [futures EXCEPT ![t] = "pending"]
    /\ scan_pc' = IF t = NumTargets THEN "collect" ELSE scan_pc
    /\ UNCHANGED <<fuzzVars, call, results, counters, host_maps, wpc, wtech, wreg,
                   activations>>

\* a free thread of the pool takes the future and enters scan_target
StartWorker(t) ==
    /\ futures[t] = "pending"
    /\ Cardinality({u \in Targets : futures[u] = "running"}) < Workers
    /\ futures' = [futures EXCEPT ![t] = "running"]
    /\ wpc' = [wpc EXCEPT ![t] = "select"]
    /\ wtech' = [wtech EXCEPT ![t] = 1]
    /\ UNCHANGED <<fuzzVars, call, scan_pc, results, counters, host_maps, wreg,
                   activations>>

\* select_techniques, lines 139-142: the draw for the technique at hand
SelectDraw(t) ==
    /\ wpc[t] = "select"
    /\ wtech[t] <= Len(ScanTechniques)
    /\ \E activated \in BOOLEAN :
         IF activated
         THEN /\ wpc' = [wpc EXCEPT ![t] = "load"]
              /\ UNCHANGED wtech
         ELSE /\ wtech' = [wtech EXCEPT ![t] = wtech[t] + 1]
              /\ UNCHANGED wpc
    /\ UNCHANGED <<fuzzVars, call, scan_pc, futures, results, counters, host_maps,
                   wreg, activations>>

\* line 143, self.counters[tech] += 1: the load of the counter ...
LoadCounter(t) ==
    /\ wpc[t] = "load"
    /\ wreg' = [wreg EXCEPT ![t] = counters[wtech[t]]]
    /\ wpc' = [wpc EXCEPT ![t] = "store"]
    /\ UNCHANGED <<fuzzVars, call, scan_pc, futures, results, counters, host_maps,
                   wtech, activations>>

\* ... and the store of the sum, which another thread may have preceded
StoreCounter(t) ==
    /\ wpc[t] = "store"
    /\ counters' = [counters EXCEPT ![wtech[t]] = wreg[t] + 1]
    /\ activations' = [activations EXCEPT ![wtech[t]] = @ + 1]
    /\ wtech' = [wtech EXCEPT ![t] = wtech[t] + 1]
    /\ wpc' = [wpc EXCEPT ![t] = "select"]
    /\ UNCHANGED <<fuzzVars, call, scan_pc, futures, results, host_maps, wreg>>

\* lines 591, 840-841, 911: an entry for the host in a dict of the scanner
RegisterHost(t) ==
    /\ wpc[t] = "select"
    /\ wtech[t] > Len(ScanTechniques)
    /\ host_maps' = host_maps \cup {t}
    /\ wpc' = [wpc EXCEPT ![t] = "finish"]
    /\ UNCHANGED <<fuzzVars, call, scan_pc, futures, results, counters, wtech, wreg,
                   activations>>

\* scan_target returns its result dict (line 1024) or raises
FinishWorker(t) ==
    /\ wpc[t] = "finish"
    /\ \E outcome \in {"returned", "raised"} :
         futures' = [futures EXCEPT ![t] = outcome]
    /\ wpc' = [wpc EXCEPT ![t] = "idle"]
    /\ UNCHANGED <<fuzzVars, call, scan_pc, results, counters, host_maps, wtech,
                   wreg, activations>>

\* mutant: the except clause stores a result entry like the try clause
Collected_NoErrorEntry(res, target, outcome) == Put(res, target, "result")

\* lines 1036-1041: the entry of a completed future, its result or, in the
\* except clause, the error
Collected(res, target, outcome) ==
    Put(res, target, IF outcome = "returned" THEN "result" ELSE "error")

\* lines 1034-1041: as_completed yields a completed future, once
Collect(t) ==
    /\ scan_pc = "collect"
    /\ futures[t] \in {"returned", "raised"}
    /\ t \notin DOMAIN results
    /\ results' = Collected(results, t, futures[t])
    /\ UNCHANGED <<fuzzVars, call, scan_pc, futures, counters, host_maps, wpc, wtech,
                   wreg, activations>>

\* lines 1043-1044: every future has been yielded; return results
ScanReturn ==
    /\ scan_pc = "collect"
    /\ DOMAIN results = Targets
    /\ scan_pc' = "returned"
    /\ UNCHANGED <<fuzzVars, call, futures, results, counters, host_maps, wpc, wtech,
                   wreg, activations>>

ScanNext ==
    \/ \E t \in Targets :
         \/ Submit(t)
         \/ StartWorker(t)
         \/ SelectDraw(t)
         \/ LoadCounter(t)
         \/ StoreCounter(t)
         \/ RegisterHost(t)
         \/ FinishWorker(t)
         \/ Collect(t)
    \/ ScanReturn

SpecScan == ScanInit /\ [][ScanNext]_vars

(***************************************************************************)
(* Claims.                                                                 *)
(***************************************************************************)
Terminated == pc \in {"done", "raised"}

HasResult == "port" \in DOMAIN fuzzing_results

\* C1: the population has exactly PopulationSize members after
\* initialize_population and after every evolve(): no list evolve() returns
\* and no population of a later generation has another size.
C1_PopulationSizeKept ==
    /\ Len(population) = PopulationSize
    /\ pc = "evolve_returned" => Len(returned) = PopulationSize

\* C2: a run in which every send failed at the transport level ends without
\* raising and stores a result whose tested-payload count and crash count
\* both equal the population size.
C2_AllFailuresReported ==
    (Terminated /\ oracle_log = "all_failed") =>
        /\ pc = "done"
        /\ HasResult
        /\ fuzzing_results["port"].tested_payloads = PopulationSize
        /\ fuzzing_results["port"].crashes = PopulationSize

\* C3: a transport failure for one payload is recorded as the empty response
\* for that payload, raises nothing, and the loop moves on to the next
\* payload; when the loop over a generation ends every member has a response.
C3_FailureBecomesEmpty ==
    [][/\ (inflight.outcome \in TransportOutcomes \ {"ok"} /\ inflight' = NoSend) =>
            /\ population[idx] \in DOMAIN responses'
            /\ responses'[population[idx]] = EmptyResponse
            /\ pc' = pc
            /\ idx' = idx + 1
       /\ (pc \in {"init_test", "retest"} /\ pc' # pc) =>
            /\ pc' # "raised"
            /\ DOMAIN responses' = Range(population')]_vars

\* a run whose every exchange failed, in the initial test and in the retest
\* of the evolved generation, with b"" recorded for every member
C3_Witness ==
    /\ pc = "analyze"
    /\ generation = Generations
    /\ oracle_log = "all_failed"
    /\ DOMAIN responses = Range(population)
    /\ \A q \in DOMAIN responses : responses[q] = EmptyResponse

\* C4: evolve() with an empty response map returns the current population
\* unmodified and does not raise.
C4_EmptyMapReturnsPopulation ==
    (responses = EmptyMap /\ pc # "evolve") =>
        /\ pc = "evolve_returned"
        /\ returned = population

C4_Witness ==
    /\ responses = EmptyMap
    /\ pc = "evolve_returned"
    /\ Len(returned) = PopulationSize

\* C7: a run ends after exactly Generations evolve steps, and the stored
\* counts are those of the last response map.
C7_StopsAfterGenerations ==
    Terminated =>
        /\ generation = Generations
        /\ HasResult => fuzzing_results["port"].crashes = Cardinality(Crashes(responses))

\* C8: with the SMB template and an oracle that only ever returns b"", the
\* run reports PopulationSize crashes and no anomaly.
C8_EmptyOracleCountsCrashesOnly ==
    (Terminated /\ protocol = "SMB" /\ oracle_log \in {"all_failed", "all_empty"}) =>
        /\ pc = "done"
        /\ HasResult
        /\ fuzzing_results["port"].crashes = PopulationSize
        /\ fuzzing_results["port"].anomalies = 0

\* C9: fitness() returns a score >= 0 and never raises, for every protocol,
\* payload and response.
C9_FitnessTotal ==
    call.out # Pending => (call.out.exc = "none" /\ call.out.score >= 0)

\* a response that starts with a signature of the protocol, is neither short
\* nor long and holds no error indicator
StartsWithSignature(p, r) ==
    LET sig == ProtocolSignatures(p)
    IN  IF sig.kind = "list"
        THEN \E i \in DOMAIN sig.val : StartsWith(r, sig.val[i])
        ELSE StartsWith(r, sig.val)

Conformant(p, r) ==
    /\ r # EmptyResponse
    /\ StartsWithSignature(p, r)
    /\ RespLen(r) >= ShortLen
    /\ RespLen(r) <= LongLen
    /\ \A ph \in ErrorPhrases \cup {"ERROR"} : ~Contains(r, ph)

\* C10: for a conformant response r, fitness(p, b"") >= fitness(p, r)
\* whatever the two jitter draws are.
C10_EmptyAtLeastConformant ==
    (call.out # Pending /\ call.out_empty # Pending
        /\ Conformant(call.protocol, call.response)) =>
        /\ call.out.exc = "none"
        /\ call.out_empty.exc = "none"
        /\ call.out_empty.score >= call.out.score

\* C5: scan() returns with an entry for every target: the error entry for the
\* targets whose scan_target raised and the result for every other one.
C5_PerTargetIsolation ==
    /\ \A t \in DOMAIN results :
         /\ futures[t] \in {"returned", "raised"}
         /\ results[t] = "error" <=> futures[t] = "raised"
    /\ scan_pc = "returned" => DOMAIN results = Targets
    /\ (scan_pc = "collect" /\ \A t \in Targets : futures[t] \in {"returned", "raised"})
          => (ENABLED ScanNext)

C5_Witness ==
    /\ scan_pc = "returned"
    /\ \E t, u \in Targets : results[t] = "error" /\ results[u] = "result"

\* C6: concurrent scan_target calls share no mutable object, so that no
\* update is lost: once every worker is done each technique's counter equals
\* the number of times the technique was activated.
C6_NoLostUpdate ==
    (\A t \in Targets : futures[t] \in {"returned", "raised"}) =>
        \A i \in DOMAIN counters : counters[i] = activations[i]

\* a response of anomalous length that is not empty
LengthAnomalous(r) ==
    /\ RespLen(r) > 0
    /\ RespLen(r) < ShortLen \/ RespLen(r) > LongLen

\* C11: for a non-empty response r of anomalous length (shorter than ShortLen
\* or longer than LongLen), fitness(p, b"") >= fitness(p, r) whatever the
\* two jitter draws are.
C11_EmptyAtLeastLengthAnomalous ==
    (call.out # Pending /\ call.out_empty # Pending
        /\ LengthAnomalous(call.response)) =>
        /\ call.out.exc = "none"
        /\ call.out_empty.exc = "none"
        /\ call.out_empty.score >= call.out.score

\* the number of occurrences of an error phrase in r, in any letter case
ErrorOccurrences(r) ==
    Cardinality({i \in DOMAIN r : r[i] \in ErrorPhrases \cup {"ERROR"}})

\* the score of r without its error-indicator part and without the jitter
ScoreBesidesErrors(p, r) ==
    (IF RespLen(r) < ShortLen \/ RespLen(r) > LongLen THEN LenAnomalyScore ELSE 0)
    + (IF ~StartsWithSignature(p, r) THEN ViolationScore ELSE 0)

\* C12: the error-indicator part of a score that fitness() returns is
\* ErrorPhraseScore times the number of occurrences of the five phrases,
\* counted in any letter case and once per occurrence.
C12_ErrorScorePerOccurrence ==
    (call.out # Pending /\ call.out.exc = "none") =>
        call.out.score - ScoreBesidesErrors(call.protocol, call.response)
            - ErrorPhraseScore * ErrorOccurrences(call.response) \in Jitter

(***************************************************************************)
(* GeneticFuzzer.crossover and GeneticFuzzer.mutate as functions: the      *)
(* arguments are drawn by the initial state and one action calls.          *)
(***************************************************************************)
\* the payloads of every length up to MaxOpLen, the empty one included, and
\* the all-zero payloads up to LongPayloadLen
OperatorInputs ==
    SeqsUpTo(Byte, MaxOpLen) \cup {[i \in 1..n |-> 0] : n \in 0..LongPayloadLen}

CrossoverInit ==
    /\ FuzzIdle
    /\ ScanIdle
    /\ \E a \in SeqsUpTo(Byte, MaxOpLen), b \in SeqsUpTo(Byte, MaxOpLen) :
         call = [fn |-> "crossover", parent1 |-> a, parent2 |-> b,
                 exc |-> "pending", out |-> <<>>]

\* crossover(parent1, parent2): the slices build a new byte string and leave
\* the arguments as they are
CallCrossover ==
    /\ call.fn = "crossover"
    /\ call.exc = "pending"
    /\ IF CrossoverRaises(call.parent1, call.parent2)
       THEN call' = [call EXCEPT !.exc = "ValueError"]
       ELSE \E child \in Crossover(call.parent1, call.parent2) :
              call' = [call EXCEPT !.exc = "none", !.out = child]
    /\ UNCHANGED <<fuzzVars, scanVars>>

SpecCrossover == CrossoverInit /\ [][CallCrossover]_vars

MutateInit ==
    /\ FuzzIdle
    /\ ScanIdle
    /\ \E q \in OperatorInputs :
         call = [fn |-> "mutate", payload |-> q, exc |-> "pending", out |-> <<>>]

\* random.randint(0, len(payload_arr) - 1) raises ValueError on an empty
\* payload (num_mutations is at least 1)
MutateRaises(payload) == Len(payload) = 0

\* mutate(payload): works on the copy bytearray(payload), returns bytes
CallMutate ==
    /\ call.fn = "mutate"
    /\ call.exc = "pending"
    /\ IF MutateRaises(call.payload)
       THEN call' = [call EXCEPT !.exc = "ValueError"]
       ELSE \E m \in Mutate(call.payload) :
              call' = [call EXCEPT !.exc = "none", !.out = m]
    /\ UNCHANGED <<fuzzVars, scanVars>>

SpecMutate == MutateInit /\ [][CallMutate]_vars

\* C13: for parents a, b with min(len(a), len(b)) >= 2, crossover(a, b)
\* returns a payload of a length in 1..len(a)+len(b)-1 that is a[:s] + b[s:]
\* for some s with 1 <= s < min(len(a), len(b)), and the call leaves both
\* arguments as they were.
C13_CrossoverValid ==
    /\ [](LET a == call.parent1
              b == call.parent2
          IN (call.exc # "pending" /\ Min(Len(a), Len(b)) >= 2) =>
                /\ call.exc = "none"
                /\ Len(call.out) \in 1..(Len(a) + Len(b) - 1)
                /\ \E s \in 1..(Min(Len(a), Len(b)) - 1) :
                      call.out = SubSeq(a, 1, s) \o SubSeq(b, s + 1, Len(b)))
    /\ [][call'.parent1 = call.parent1 /\ call'.parent2 = call.parent2]_vars

\* a child of two parents of different lengths that is neither parent
C13_Witness ==
    /\ call.fn = "crossover"
    /\ call.exc = "none"
    /\ Len(call.parent1) > Len(call.parent2)
    /\ Len(call.parent2) >= 3
    /\ call.out # call.parent1
    /\ call.out # call.parent2

\* the number of positions at which two payloads of one length differ
Differing(p, q) == Cardinality({i \in DOMAIN p : p[i] # q[i]})

\* round(len * 0.15) as Python rounds it, a tie going to the even integer
RoundedRate(len) ==
    LET whole == (len * 15) \div 100
        rest == (len * 15) % 100
    IN  IF rest > 50 \/ (rest = 50 /\ whole % 2 = 1) THEN whole + 1 ELSE whole

\* C14 as stated: mutate(p) has the length of p and differs from p in at
\* most round(len(p) * 0.15) positions.
C14_MutationBoundRounded ==
    (call.fn = "mutate" /\ call.exc = "none") =>
        /\ Len(call.out) = Len(call.payload)
        /\ Differing(call.payload, call.out) <= RoundedRate(Len(call.payload))

\* C14, amended: for a payload p that is not empty, mutate(p) returns a
\* payload of the length of p that differs from p in at most
\* max(1, int(len(p) * 0.15)) positions.
C14_MutationBound ==
    (call.fn = "mutate" /\ call.exc # "pending" /\ Len(call.payload) > 0) =>
        /\ call.exc = "none"
        /\ Len(call.out) = Len(call.payload)
        /\ Differing(call.payload, call.out)
              <= Max(1, (Len(call.payload) * 15) \div 100)

\* a payload long enough for two overwrites, mutated at two positions
C14_Witness ==
    /\ call.fn = "mutate"
    /\ call.exc = "none"
    /\ Differing(call.payload, call.out) = 2

(***************************************************************************)
(* EvasionEngine.select_techniques.                                        *)
(***************************************************************************)
EVASION_TECHNIQUES ==
    <<"fragmentation", "protocol_tunneling", "traffic_morphing", "packet_padding",
      "source_spoofing", "ttl_manipulation", "dns_tunneling", "http_obfuscation",
      "icmp_covert", "session_splicing", "crypto_stealth", "protocol_misattribution">>

Techniques == Range(EVASION_TECHNIQUES)

\* self.technique_weights, in tenths; the dict lists the techniques in the
\* order of EVASION_TECHNIQUES
TechniqueWeights ==
    [t \in Techniques |->
        CASE t = "fragmentation" -> 8
          [] t = "protocol_tunneling" -> 6
          [] t = "traffic_morphing" -> 9
          [] t = "packet_padding" -> 7
          [] t = "source_spoofing" -> 5
          [] t = "ttl_manipulation" -> 4
          [] t = "dns_tunneling" -> 3
          [] t = "http_obfuscation" -> 6
          [] t = "icmp_covert" -> 2
          [] t = "session_splicing" -> 4
          [] t = "crypto_stealth" -> 3
          [] t = "protocol_misattribution" -> 5]

\* the stealth levels the command line accepts
StealthLevels == 1..4

\* mutant: the two draws may pick the same position
Sample2_WithReplacement(list) == {<<list[i], list[j]>> : i, j \in DOMAIN list}

\* random.sample(list, 2): the entries at two different positions, in the
\* order drawn
Sample2(list) ==
    {<<list[c[1]], list[c[2]]>> : c \in {d \in (DOMAIN list) \X (DOMAIN list) : d[1] # d[2]}}

\* the sets of techniques whose draw random.random() < weight * (level / 4)
\* can succeed together: random() lies in [0, 1), so a technique can
\* activate when its adjusted weight is positive and can stay out when it is
\* below 1; at most maxActive activate
Activations(level, maxActive) ==
    {S \in SUBSET Techniques :
        /\ Cardinality(S) <= maxActive
        /\ \A t \in S : TechniqueWeights[t] * level > 0
        /\ \A t \in Techniques \ S : TechniqueWeights[t] * level < 40}

\* the list `selected` after the loop over self.technique_weights.items()
InWeightOrder(S) == SelectSeq(EVASION_TECHNIQUES, LAMBDA t : t \in S)

\* mutant: no default technique
OrDefault_Nothing(selected) == selected

\* selected or ["traffic_morphing"]
OrDefault(selected) == IF selected = <<>> THEN <<"traffic_morphing">> ELSE selected

\* select_techniques(): the list returned and the techniques whose counter
\* was incremented
SelectTechniques(level, maxActive) ==
    IF level = 1
    THEN {[out |-> s, activated |-> {}] : s \in Sample2(SubSeq(EVASION_TECHNIQUES, 1, 4))}
    ELSE {[out |-> OrDefault(InWeightOrder(S)), activated |-> S] :
             S \in Activations(level, maxActive)}

\* self.counters[tech] += 1 for every activated technique
Counted(cnt, activated) ==
    [t \in DOMAIN cnt |-> IF t \in activated THEN cnt[t] + 1 ELSE cnt[t]]

\* a fresh EvasionEngine: self.counters = {tech: 0 for tech in EVASION_TECHNIQUES}
EngineInit ==
    /\ FuzzIdle
    /\ scan_pc = "idle"
    /\ futures = EmptyMap
    /\ results = EmptyMap
    /\ counters = [t \in Techniques |-> 0]
    /\ host_maps = {}
    /\ wpc = EmptyMap
    /\ wtech = EmptyMap
    /\ wreg = EmptyMap
    /\ activations = EmptyMap

SelectInit ==
    /\ EngineInit
    /\ \E level \in StealthLevels :
         call = [fn |-> "select_techniques", stealth_level |-> level,
                 exc |-> "pending", out |-> <<>>, activated |-> {}]

CallSelectTechniques ==
    /\ call.fn = "select_techniques"
    /\ call.exc = "pending"
    /\ \E sel \in SelectTechniques(call.stealth_level, Len(EVASION_TECHNIQUES)) :
         /\ call' = [call EXCEPT !.exc = "none", !.out = sel.out,
                                 !.activated = sel.activated]
         /\ counters' = Counted(counters, sel.activated)
    /\ UNCHANGED <<fuzzVars, scan_pc, futures, results, host_maps, wpc, wtech, wreg,
                   activations>>

SpecSelect == SelectInit /\ [][CallSelectTechniques]_vars

\* C15: at stealth level 1 select_techniques() returns exactly two
\* techniques, different from each other and both among the first four
\* entries of EVASION_TECHNIQUES.
C15_LevelOneSamplesTwoOfFirstFour ==
    (call.fn = "select_techniques" /\ call.exc # "pending" /\ call.stealth_level = 1) =>
        /\ call.exc = "none"
        /\ Len(call.out) = 2
        /\ call.out[1] # call.out[2]
        /\ Range(call.out) \subseteq
              {"fragmentation", "protocol_tunneling", "traffic_morphing", "packet_padding"}

C15_Witness ==
    /\ call.fn = "select_techniques"
    /\ call.stealth_level = 1
    /\ call.out = <<"packet_padding", "fragmentation">>

\* C16: select_techniques() never returns an empty list; at stealth levels
\* 2 to 4 it returns exactly ["traffic_morphing"] when no technique was
\* activated and exactly the activated techniques, each once, otherwise.
C16_NeverEmptySelection ==
    (call.fn = "select_techniques" /\ call.exc # "pending") =>
        /\ call.exc = "none"
        /\ call.out # <<>>
        /\ call.stealth_level \in 2..4 =>
              IF call.activated = {}
              THEN call.out = <<"traffic_morphing">>
              ELSE /\ Range(call.out) = call.activated
                   /\ Len(call.out) = Cardinality(call.activated)

\* a call at a level above 1 in which no draw activated a technique
C16_Witness ==
    /\ call.fn = "select_techniques"
    /\ call.stealth_level \in 2..4
    /\ call.exc = "none"
    /\ call.activated = {}
    /\ call.out = <<"traffic_morphing">>

(***************************************************************************)
(* EvasionEngine.apply_evasion and its transforms.  A byte string is a     *)
(* sequence of items; an item stands for n bytes: the original bytes of a  *)
(* packet ("raw"), a header or trailer the transform writes, random bytes, *)
(* or an encoding of the byte string `of`.                                 *)
(***************************************************************************)
Item(tag, n, of) == [tag |-> tag, n |-> n, of |-> of]

Raw(n) == IF n = 0 THEN <<>> ELSE <<Item("raw", n, <<>>)>>

\* len(packet)
BytesLen(s) ==
    LET RECURSIVE Go(_)
        Go(i) == IF i = 0 THEN 0 ELSE s[i].n + Go(i - 1)
    IN Go(Len(s))

Returned(b) == [exc |-> "none", out |-> b]

Raising(e) == [exc |-> e, out |-> <<>>]

\* morph_traffic: random.choice(["HTTP", "DNS", "ICMP"]).  HTTP prepends a
\* header of 57 bytes plus a host name of 7 to 11; DNS with scapy present
\* calls self._build_dns_encoded, which EvasionEngine does not define;
\* everything else returns the packet
MorphTraffic(packet, scapy) ==
    {Returned(<<Item("http_header", 57 + h, <<>>)>> \o packet) : h \in {7, 11}}
    \cup (IF scapy THEN {Raising("AttributeError")} ELSE {Returned(packet)})
    \cup {Returned(packet)}

\* add_packet_padding: packet + os.urandom(random.randint(0, 512)), with the
\* two extreme draws followed
AddPacketPadding(packet) ==
    {Returned(packet \o (IF k = 0 THEN <<>> ELSE <<Item("padding", k, <<>>)>>)) :
        k \in {0, 512}}

\* the length of the base32 text without '=', cut into labels of 63
\* characters joined by '.', followed by ".evil.com"
DnsQueryLen(n) ==
    LET chars == (8 * n + 4) \div 5
        dots == IF chars = 0 THEN 0 ELSE (chars + 62) \div 63 - 1
    IN chars + dots + 9

\* dns_tunnel_obfuscate
DnsTunnelObfuscate(packet) ==
    {Returned(<<Item("dns_query", DnsQueryLen(BytesLen(packet)), packet)>>)}

\* http_obfuscate: header + body + packet + footer
HttpObfuscate(packet) ==
    {Returned(<<Item("multipart_header", 105 + 110, <<>>)>> \o packet
              \o <<Item("multipart_footer", 44, <<>>)>>)}

\* crypto_obfuscate: iv + AES-CFB ciphertext, as long as the packet; the
\* names Cipher, algorithms and modes exist only when the import succeeded
CryptoObfuscate(packet, crypto) ==
    IF crypto
    THEN {Returned(<<Item("iv", 16, <<>>), Item("aes_cfb", BytesLen(packet), packet)>>)}
    ELSE {Raising("NameError")}

\* misattribute_protocol: struct.pack(">H", n) raises struct.error for
\* n > 65535
MisattributeProtocol(packet, actual_protocol) ==
    CASE actual_protocol = "SMB" ->
           IF BytesLen(packet) > UShortMax
           THEN {Raising("struct.error")}
           ELSE {Returned(<<Item("rdp_tag", 3, <<>>), Item("length_u16", 2, <<>>)>>
                          \o packet)}
      [] actual_protocol = "RDP" ->
           {Returned(<<Item("get_prefix", 5, <<>>),
                       Item("base64", 4 * ((BytesLen(packet) + 2) \div 3), packet),
                       Item("http_suffix", 13, <<>>)>>)}
      [] OTHER -> {Returned(packet)}

\* the branch of the if/elif chain of lines 152-172 that runs for tech: the
\* transform it calls, or "pass" when no branch changes the packet
Branch(tech, env) ==
    CASE tech = "traffic_morphing" -> "morph_traffic"
      [] tech = "packet_padding" -> "add_packet_padding"
      [] tech = "dns_tunneling" /\ env.protocol \in {"HTTP", "SMB"} -> "dns_tunnel_obfuscate"
      [] tech = "http_obfuscation" /\ env.protocol \in {"SMB", "RDP"} -> "http_obfuscate"
      [] tech = "crypto_stealth" /\ env.crypto -> "crypto_obfuscate"
      [] tech = "protocol_misattribution" -> "misattribute_protocol"
      [] OTHER -> "pass"

Transformed(branch, processed, env) ==
    CASE branch = "morph_traffic" -> MorphTraffic(processed, env.scapy)
      [] branch = "add_packet_padding" -> AddPacketPadding(processed)
      [] branch = "dns_tunnel_obfuscate" -> DnsTunnelObfuscate(processed)
      [] branch = "http_obfuscate" -> HttpObfuscate(processed)
      [] branch = "crypto_obfuscate" -> CryptoObfuscate(processed, env.crypto)
      [] branch = "misattribute_protocol" -> MisattributeProtocol(processed, env.protocol)
      [] OTHER -> {Returned(processed)}

\* one pass of `for tech in techniques` from the state st of the call: the
\* value of `processed`, the transforms called so far, the exception raised
LoopPass(tech, st, env) ==
    LET branch == Branch(tech, env)
    IN  {[exc |-> r.exc, out |-> r.out,
          applied |-> IF branch = "pass" THEN st.applied ELSE Append(st.applied, branch)] :
            r \in Transformed(branch, st.out, env)}

\* the loop from techniques[i] on: an exception ends the call
RECURSIVE ApplyFrom(_, _, _, _)
ApplyFrom(techniques, i, st, env) ==
    IF i > Len(techniques) \/ st.exc # "none" THEN {st}
    ELSE UNION {ApplyFrom(techniques, i + 1, r, env) :
                   r \in LoopPass(techniques[i], st, env)}

\* apply_evasion(packet, protocol, target_ip) once select_techniques() has
\* returned techniques
ApplyEvasion(techniques, packet, env) ==
    ApplyFrom(techniques, 1, [exc |-> "none", out |-> packet, applied |-> <<>>], env)

\* the packets handed to apply_evasion: empty, one byte, and the lengths on
\* both sides of the largest that struct.pack(">H") accepts
EvasionPackets == {Raw(n) : n \in {0, 1, UShortMax, UShortMax + 1}}

\* the protocol argument: "TCP" stands for the protocols without a branch
EvasionProtocols == {"SMB", "RDP", "HTTP", "TCP"}

\* SCAPY_AVAILABLE and CRYPTO_AVAILABLE, set by the imports
Environments ==
    [protocol : EvasionProtocols, scapy : BOOLEAN, crypto : BOOLEAN]

ApplyInit ==
    /\ EngineInit
    /\ \E level \in StealthLevels, packet \in EvasionPackets, env \in Environments :
         call = [fn |-> "apply_evasion", stealth_level |-> level, packet |-> packet,
                 env |-> env, exc |-> "pending", techniques |-> <<>>,
                 out |-> <<>>, applied |-> <<>>]

CallApplyEvasion ==
    /\ call.fn = "apply_evasion"
    /\ call.exc = "pending"
    /\ \E sel \in SelectTechniques(call.stealth_level, MaxActivated) :
         /\ \E r \in ApplyEvasion(sel.out, call.packet, call.env) :
              call' = [call EXCEPT !.exc = r.exc, !.techniques = sel.out,
                                   !.out = r.out, !.applied = r.applied]
         /\ counters' = Counted(counters, sel.activated)
    /\ UNCHANGED <<fuzzVars, scan_pc, futures, results, host_maps, wpc, wtech, wreg,
                   activations>>

SpecApply == ApplyInit /\ [][CallApplyEvasion]_vars

\* C17: apply_evasion, and with it every transform it calls, returns a byte
\* string and raises nothing, for every packet (the empty one and the
\* longest ones included), every protocol and every selection of
\* techniques.
C17_PipelineNeverRaises ==
    (call.fn = "apply_evasion" /\ call.exc # "pending") => call.exc = "none"

(***************************************************************************)
(* Two apply_evasion calls of one engine on the same packet.               *)
(***************************************************************************)
NotRun == [exc |-> "pending", techniques |-> <<>>, applied |-> <<>>]

OrderInit ==
    /\ EngineInit
    /\ \E level \in StealthLevels, env \in Environments :
         call = [fn |-> "apply_evasion twice", stealth_level |-> level,
                 packet |-> Raw(1), env |-> env, first |-> NotRun, second |-> NotRun]

\* what a call leaves in the record: the list select_techniques() returned
\* and the transforms the loop called, in the order it called them
Run(sel, r) == [exc |-> r.exc, techniques |-> sel.out, applied |-> r.applied]

FirstApplyEvasion ==
    /\ call.fn = "apply_evasion twice"
    /\ call.first = NotRun
    /\ \E sel \in SelectTechniques(call.stealth_level, MaxActivated) :
         /\ \E r \in ApplyEvasion(sel.out, call.packet, call.env) :
              call' = [call EXCEPT !.first = Run(sel, r)]
         /\ counters' = Counted(counters, sel.activated)
    /\ UNCHANGED <<fuzzVars, scan_pc, futures, results, host_maps, wpc, wtech, wreg,
                   activations>>

SecondApplyEvasion ==
    /\ call.fn = "apply_evasion twice"
    /\ call.first # NotRun
    /\ call.second = NotRun
    /\ \E sel \in SelectTechniques(call.stealth_level, MaxActivated) :
         /\ \E r \in ApplyEvasion(sel.out, call.packet, call.env) :
              call' = [call EXCEPT !.second = Run(sel, r)]
         /\ counters' = Counted(counters, sel.activated)
    /\ UNCHANGED <<fuzzVars, scan_pc, futures, results, host_maps, wpc, wtech, wreg,
                   activations>>

OrderNext == FirstApplyEvasion \/ SecondApplyEvasion

SpecOrder == OrderInit /\ [][OrderNext]_vars

\* C18: two apply_evasion calls that selected the same set of techniques
\* call the transforms in the same order, at every stealth level.
C18_FixedApplicationOrder ==
    (/\ call.fn = "apply_evasion twice"
     /\ call.first.exc = "none"
     /\ call.second.exc = "none"
     /\ Range(call.first.techniques) = Range(call.second.techniques)) =>
        call.first.applied = call.second.applied

\* C19: a run that went through its generations and ended stores one record
\* under its port, with the protocol and the four counts, whatever the
\* counts are, zero crashes and zero anomalies included.
C19_ResultForEveryCompletedRun ==
    pc = "done" =>
        /\ DOMAIN fuzzing_results = {"port"}
        /\ DOMAIN fuzzing_results["port"] =
              {"protocol", "crashes", "anomalies", "tested_payloads", "generations"}

\* C20: whatever a fuzzing run transmits has gone through apply_evasion
\* first; no member of the population is sent as it is.
C20_SentThroughPipeline ==
    inflight.sent.bytes # <<>> =>
        "apply_evasion" \in Range(inflight.sent.transforms)

(***************************************************************************)
(* EternalPulseScanner._tcp_scan inside the loop `for port in              *)
(* self.tcp_ports` of scan_target, for one host.                           *)
(***************************************************************************)
TcpPorts == 1..NumPorts

\* what a port of the host does: refuse the connection, let it time out, or
\* accept it and answer the detection payload with some bytes
PortBehaviours ==
    {[state |-> "closed", reply |-> <<>>], [state |-> "filtered", reply |-> <<>>]}
    \cup {[state |-> "open", reply |-> r] :
             r \in {<<>>, <<"x">>, <<"\\xfeSMB", "pad">>, <<"HTTP/", "pad">>}}

\* _detect_protocol: the first entry of PROTOCOL_SIGNATURES, in dict order,
\* one of whose signatures the response starts with, or "UNKNOWN" (the FTP
\* and DNS entries behave as the SSH entry does)
DetectProtocol(response) ==
    LET order == <<"SMB", "RDP", "HTTP", "SSH">>
        hits == SelectSeq(order, LAMBDA p : StartsWithSignature(p, response))
    IN  IF hits = <<>> THEN "UNKNOWN" ELSE Head(hits)

\* how a _run_fuzzing call ends: the SMB run always raises in evolve()
\* (fitness), every other run returns or raises (tournament draw)
FuzzRunEnds(p) == IF p = "SMB" THEN {"raised"} ELSE {"returned", "raised"}

NoRun == <<>>

\* _tcp_scan(host, port): the status returned and the fuzzing run started.
\*   lines 568-572: without scapy or evasion_mode, morph_traffic is called
\*   with three arguments and raises TypeError; with both, _build_evasion_syn
\*   returns or raises inside scapy
\*   lines 574-576: connect refused or timed out
\*   line 580: apply_evasion may raise
\*   lines 583-591: detection; vulnerability checks go to the network and may
\*   raise
\*   lines 594-595: the fuzzing run, for every protocol but "UNKNOWN"
TcpScan(cfg, port, behaviour) ==
    LET detected == DetectProtocol(behaviour.reply)
        failed == [status |-> "error", run |-> NoRun]
        started == <<[port |-> port, protocol |-> detected]>>
    IN  IF ~(cfg.scapy /\ cfg.evasion_mode) THEN {failed}
        ELSE {failed}
             \cup (IF behaviour.state # "open"
                   THEN {[status |-> "filtered", run |-> NoRun]}
                   ELSE {[status |-> "filtered", run |-> NoRun]}
                        \cup (IF cfg.fuzzing /\ detected # "UNKNOWN"
                              THEN {[status |-> IF e = "returned" THEN "open" ELSE "error",
                                     run |-> started] : e \in FuzzRunEnds(detected)}
                              ELSE {[status |-> "open", run |-> NoRun]}))

TcpInit ==
    /\ FuzzIdle
    /\ ScanIdle
    /\ \E cfg \in [fuzzing : BOOLEAN, evasion_mode : BOOLEAN, scapy : BOOLEAN],
          behaviour \in [TcpPorts -> PortBehaviours] :
         call = [fn |-> "tcp_ports loop", cfg |-> cfg, behaviour |-> behaviour,
                 port |-> 1, status |-> EmptyMap, runs |-> <<>>]

\* one pass of `for port in self.tcp_ports`: result["ports"][f"tcp/{port}"]
TcpScanPort ==
    /\ call.fn = "tcp_ports loop"
    /\ call.port <= NumPorts
    /\ \E o \in TcpScan(call.cfg, call.port, call.behaviour[call.port]) :
         call' = [call EXCEPT !.status = Put(call.status, call.port, o.status),
                              !.runs = call.runs \o o.run,
                              !.port = call.port + 1]
    /\ UNCHANGED <<fuzzVars, scanVars>>

SpecTcp == TcpInit /\ [][TcpScanPort]_vars

\* C21: with fuzzing enabled, once the loop over the TCP ports has ended,
\* exactly one fuzzing run was started for every port found open and none for
\* any other port, each with a known protocol or "unknown".
C21_OneRunPerOpenPort ==
    (call.fn = "tcp_ports loop" /\ call.cfg.fuzzing /\ call.port > NumPorts) =>
        \A p \in TcpPorts :
            LET runs == SelectSeq(call.runs, LAMBDA r : r.port = p)
            IN  /\ Len(runs) = (IF call.status[p] = "open" THEN 1 ELSE 0)
                /\ \A i \in DOMAIN runs :
                      runs[i].protocol \in {"SMB", "RDP", "HTTP", "SSH", "unknown", "UNKNOWN"}

(***************************************************************************)
(* The sockets of one loop `for payload in fuzzer.population` of           *)
(* _run_fuzzing, in a scanner constructed with some timeout.               *)
(***************************************************************************)
\* EternalPulseScanner(timeout=...): the per-request timeout of the caller
ConfiguredTimeouts == 1..MaxTimeout

OracleInit ==
    /\ FuzzIdle
    /\ ScanIdle
    /\ \E t \in ConfiguredTimeouts, n \in 1..(PopulationSize + 1) :
         call = [fn |-> "oracle loop", timeout |-> t, members |-> n, payload |-> 1,
                 sockets |-> <<>>]

\* lines 850-851: socket.socket(AF_INET, SOCK_STREAM) and sock.settimeout(2):
\* a new socket object, for the payload at hand, not yet connected
OpenSocket ==
    /\ call.fn = "oracle loop"
    /\ call.payload <= call.members
    /\ \A i \in DOMAIN call.sockets : call.sockets[i].state = "closed"
    /\ call' = [call EXCEPT !.sockets =
                  Append(@, [id |-> Len(@) + 1, timeout |-> FuzzSocketTimeout,
                             payload |-> call.payload, state |-> "created",
                             outcome |-> "none"])]
    /\ UNCHANGED <<fuzzVars, scanVars>>

\* lines 852-857: connect, sendall and recv, or the exception one of them
\* raises; the with block closes the socket and the loop moves on
ExchangeAndClose ==
    /\ call.fn = "oracle loop"
    /\ call.sockets # <<>>
    /\ call.sockets[Len(call.sockets)].state = "created"
    /\ \E outcome \in TransportOutcomes :
         call' = [call EXCEPT !.sockets[Len(call.sockets)].state = "closed",
                              !.sockets[Len(call.sockets)].outcome = outcome,
                              !.payload = @ + 1]
    /\ UNCHANGED <<fuzzVars, scanVars>>

OracleNext == OpenSocket \/ ExchangeAndClose

SpecOracle == OracleInit /\ [][OracleNext]_vars

\* C22: every exchange of a fuzzing run has a socket of its own, used for one
\* payload only, and the timeout set on that socket before it connects is
\* the timeout the scanner was configured with.
C22_FreshSocketCallerTimeout ==
    call.fn = "oracle loop" =>
        /\ \A i, j \in DOMAIN call.sockets :
              (i # j) => /\ call.sockets[i].id # call.sockets[j].id
                         /\ call.sockets[i].payload # call.sockets[j].payload
        /\ \A i \in DOMAIN call.sockets : call.sockets[i].timeout = call.timeout

(***************************************************************************)
(* _run_fuzzing against a stub that answers every payload with exactly a   *)
(* signature of the run's protocol.                                        *)
(***************************************************************************)
StubInit ==
    /\ ScanIdle
    /\ protocol \in {"SMB", "RDP", "HTTP"}
    /\ population \in InitialPopulations(protocol)
    /\ responses = EmptyMap
    /\ pc = "init_test"
    /\ idx = 1
    /\ generation = 0
    /\ fitness_scores = EmptyMap
    /\ new_population = <<>>
    /\ returned = <<>>
    /\ fuzzing_results = EmptyMap
    /\ inflight = NoSend
    /\ oracle_log = "all_failed"
    /\ call = SignatureStub

SpecStub == StubInit /\ [][Next]_vars

\* C23: against the signature stub the run of each of SMB, RDP and HTTP
\* ends without raising and counts no anomaly.
C23_SignatureRepliesNoAnomaly ==
    (call = SignatureStub /\ Terminated) =>
        /\ pc = "done"
        /\ HasResult => fuzzing_results["port"].anomalies = 0

(***************************************************************************)
(* EvasionEngine.morph_traffic called on its own.                          *)
(***************************************************************************)
MorphPackets == {Raw(n) : n \in 0..MaxPacketLen} \cup EvasionPackets

MorphInit ==
    /\ FuzzIdle
    /\ ScanIdle
    /\ \E packet \in MorphPackets, scapy \in BOOLEAN :
         call = [fn |-> "morph_traffic", packet |-> packet, scapy |-> scapy,
                 exc |-> "pending", out |-> <<>>]

CallMorphTraffic ==
    /\ call.fn = "morph_traffic"
    /\ call.exc = "pending"
    /\ \E r \in MorphTraffic(call.packet, call.scapy) :
         call' = [call EXCEPT !.exc = r.exc, !.out = r.out]
    /\ UNCHANGED <<fuzzVars, scanVars>>

SpecMorph == MorphInit /\ [][CallMorphTraffic]_vars

\* s ends with t
EndsWith(s, t) ==
    /\ Len(t) <= Len(s)
    /\ SubSeq(s, Len(s) - Len(t) + 1, Len(s)) = t

\* C24: for every packet and every mimicry target morph_traffic returns a
\* byte string that ends with the bytes of the packet.
C24_MorphKeepsPacketAsSuffix ==
    (call.fn = "morph_traffic" /\ call.exc # "pending") =>
        /\ call.exc = "none"
        /\ EndsWith(call.out, call.packet)

\* the members an evaluation loop has gone through
Evaluated == {population[i] : i \in 1..(idx - 1)}

EvaluationEnded == pc \in {"init_test", "retest"} /\ idx > Len(population)

ApiTexts == {"text A", "text B"}

\* the exceptions the API call can raise
ApiErrors == {"APITimeoutError", "RateLimitError"}

RetrySettings == (0 - 1)..MaxRetries

RetryInit ==
    /\ FuzzIdle
    /\ ScanIdle
    /\ \E m \in RetrySettings :
         call = [fn |-> "request_with_retry", MAX_RETRIES |-> m, attempt |-> 0,
                 log |-> <<>>, exc |-> "pending", out |-> ""]

\* mutant: the attempt before the last one gives up
LastAttempt_OneEarly(attempt, maxRetries) == attempt >= maxRetries - 1

\* if attempt == MAX_RETRIES
LastAttempt(attempt, maxRetries) == attempt = maxRetries

\* the body of `for attempt in range(MAX_RETRIES + 1)` runs
InRetryLoop ==
    /\ call.fn = "request_with_retry"
    /\ call.exc = "pending"
    /\ call.attempt < call.MAX_RETRIES + 1

\* the call succeeds: return resp.output_text
AttemptSucceeds ==
    /\ InRetryLoop
    /\ \E t \in ApiTexts :
         call' = [call EXCEPT !.log = Append(@, [ok |-> TRUE, val |-> t]),
                              !.exc = "none", !.out = t]
    /\ UNCHANGED <<fuzzVars, scanVars>>

\* the call raises e: re-raise it on the last attempt, otherwise sleep
\* RETRY_DELAY seconds and go on with the next attempt
AttemptFails ==
    /\ InRetryLoop
    /\ \E e \in ApiErrors :
         call' = [call EXCEPT !.log = Append(@, [ok |-> FALSE, val |-> e]),
                              !.exc = IF LastAttempt(call.attempt, call.MAX_RETRIES)
                                      THEN e ELSE "pending",
                              !.attempt = @ + 1]
    /\ UNCHANGED <<fuzzVars, scanVars>>

\* the loop ended without a return or a raise: raise RuntimeError("Unreachable")
LoopExhausted ==
    /\ call.fn = "request_with_retry"
    /\ call.exc = "pending"
    /\ call.attempt >= call.MAX_RETRIES + 1
    /\ call' = [call EXCEPT !.exc = "RuntimeError"]
    /\ UNCHANGED <<fuzzVars, scanVars>>

RetryNext == AttemptSucceeds \/ AttemptFails \/ LoopExhausted

SpecRetry == RetryInit /\ [][RetryNext]_vars

AllFailed(log) == \A i \in DOMAIN log : ~log[i].ok

\* C26: request_with_retry calls the API at most MAX_RETRIES + 1 times; it
\* returns the text of the first call that succeeds and calls no more; after
\* a failed call that is not the last it goes on to the next attempt; when
\* attempt MAX_RETRIES has failed it raises the exception of that call.
C26_RetryAtMostMaxRetriesPlusOne ==
    call.fn = "request_with_retry" =>
        LET log == call.log
            n == Len(log)
        IN  /\ n <= Max(0, call.MAX_RETRIES + 1)
            /\ AllFailed(SubSeq(log, 1, n - 1))
            /\ (n > 0 /\ ~log[n].ok /\ n < call.MAX_RETRIES + 1) =>
                  /\ call.exc = "pending"
                  /\ ENABLED AttemptSucceeds
                  /\ ENABLED AttemptFails
            /\ call.exc = "none" <=> (n > 0 /\ log[n].ok)
            /\ call.exc = "none" =>
                  /\ call.out = log[n].val
                  /\ ~(ENABLED RetryNext)
            /\ (n > 0 /\ ~log[n].ok /\ n = call.MAX_RETRIES + 1) =>
                  /\ call.exc = log[n].val
                  /\ ~(ENABLED RetryNext)

\* the text of a call that succeeded after two failed ones
C26_Witness ==
    /\ call.fn = "request_with_retry"
    /\ call.exc = "none"
    /\ Len(call.log) = 3
    /\ call.out = call.log[3].val

\* the last of MAX_RETRIES + 1 failed calls re-raised
C26_WitnessRaised ==
    /\ call.fn = "request_with_retry"
    /\ call.MAX_RETRIES = MaxRetries
    /\ Len(call.log) = MaxRetries + 1
    /\ call.exc \in ApiErrors

(***************************************************************************)
(* The refinement loop of iterate_ai.py and iter-refine.py.  One call of   *)
(* request_with_retry is one step: it returns a text or raises.  Diff      *)
(* ratios and thresholds are in hundredths.                                *)
(***************************************************************************)
OriginalInput == "input text"

\* 1.0 - SequenceMatcher(None, a, b).ratio(): 0 for equal texts, positive
\* otherwise
DiffRatio(a, b) == IF a = b THEN {0} ELSE {SmallRatio, LargeRatio}

\* --threshold / --threshold-percent: any float, 0.2 by default
Thresholds == {0, DefaultThreshold}

\* --limit: absent or any integer
Limits == {[given |-> FALSE, n |-> 0]} \cup [given : {TRUE}, n : 0..MaxLimit]

\* where each script writes: iterate_ai.py in write_outputs (one programming
\* file, several, or no direct write), iter-refine.py after the loop
RefineConfigs ==
    [script : {"iterate_ai"}, mode : {"single", "multi", "off"}]
      \cup [script : {"iter-refine"}, mode : {"direct", "output file"}]

RefineInit ==
    /\ FuzzIdle
    /\ ScanIdle
    /\ \E cfg \in RefineConfigs, limit \in Limits, threshold \in Thresholds :
         call = [fn |-> "refine", script |-> cfg.script, mode |-> cfg.mode,
                 limit |-> limit, threshold |-> threshold, iteration |-> 1,
                 current_text |-> OriginalInput, log |-> <<>>,
                 writes |-> <<>>, pc |-> "loop"]

\* mutant: the limit counts from zero
LimitReached_AtLimit(limit, iteration) == limit.given /\ iteration >= limit.n

\* if args.limit is not None and iteration > args.limit
LimitReached(limit, iteration) == limit.given /\ iteration > limit.n

\* the debug file of the iteration, then write_outputs (iterate_ai.py only)
LoopWrites(c, text, matched) ==
    <<[file |-> "debug file", text |-> text]>>
      \o (IF c.script = "iterate_ai"
             /\ (c.mode = "single" \/ (c.mode = "multi" /\ matched))
          THEN <<[file |-> "input files", text |-> text]>>
          ELSE <<>>)

\* the loop stops at the limit
RefineLimitStop ==
    /\ call.fn = "refine"
    /\ call.pc = "loop"
    /\ LimitReached(call.limit, call.iteration)
    /\ call' = [call EXCEPT !.pc = "after loop"]
    /\ UNCHANGED <<fuzzVars, scanVars>>

\* request_with_retry raised: [FATAL], break
RefineRequestFails ==
    /\ call.fn = "refine"
    /\ call.pc = "loop"
    /\ ~LimitReached(call.limit, call.iteration)
    /\ call.iteration <= MaxLimit + 1
    /\ call' = [call EXCEPT !.log = Append(@, [ok |-> FALSE, text |-> "", ratio |-> 0]),
                            !.pc = "after loop"]
    /\ UNCHANGED <<fuzzVars, scanVars>>

\* request_with_retry returned new_text: write it, compare it, stop under the
\* threshold or go on
RefineRequestSucceeds ==
    /\ call.fn = "refine"
    /\ call.pc = "loop"
    /\ ~LimitReached(call.limit, call.iteration)
    /\ call.iteration <= MaxLimit + 1
    /\ \E new_text \in ApiTexts, matched \in BOOLEAN :
       \E ratio \in DiffRatio(call.current_text, new_text) :
         call' = [call EXCEPT
                    !.log = Append(@, [ok |-> TRUE, text |-> new_text, ratio |-> ratio]),
                    !.writes = @ \o LoopWrites(call, new_text, matched),
                    !.current_text = new_text,
                    !.iteration = IF ratio < call.threshold THEN @ ELSE @ + 1,
                    !.pc = IF ratio < call.threshold THEN "after loop" ELSE "loop"]
    /\ UNCHANGED <<fuzzVars, scanVars>>

\* after the loop iter-refine.py writes current_text to the input file or to
\* output_<base>.txt; iterate_ai.py writes nothing more
RefineFinish ==
    /\ call.fn = "refine"
    /\ call.pc = "after loop"
    /\ call' = [call EXCEPT
                  !.writes = IF call.script = "iter-refine"
                             THEN Append(@, [file |-> call.mode, text |-> call.current_text])
                             ELSE @,
                  !.pc = "done"]
    /\ UNCHANGED <<fuzzVars, scanVars>>

RefineNext ==
    \/ RefineLimitStop
    \/ RefineRequestFails
    \/ RefineRequestSucceeds
    \/ RefineFinish

SpecRefine == RefineInit /\ [][RefineNext]_vars

\* the new_text of the latest request that succeeded, else the original input
MostRecentResponse(log) ==
    LET oks == {i \in DOMAIN log : log[i].ok}
    IN  IF oks = {} THEN OriginalInput
        ELSE log[CHOOSE i \in oks : \A j \in oks : j <= i].text

\* a request that ends the loop: it failed, or its ratio is under the threshold
Stopping(entry, threshold) == ~entry.ok \/ entry.ratio < threshold

C27_WitnessLimit ==
    /\ call.fn = "refine"
    /\ call.pc = "done"
    /\ call.limit = [given |-> TRUE, n |-> MaxLimit]
    /\ Len(call.log) = MaxLimit
    /\ call.log[MaxLimit].ok
    /\ call.log[MaxLimit].ratio >= call.threshold

\* no request succeeded and iter-refine.py wrote the original input
C27_WitnessNoSuccess ==
    /\ call.fn = "refine"
    /\ call.pc = "done"
    /\ Len(call.log) = 1
    /\ ~call.log[1].ok
    /\ call.writes = <<[file |-> "output file", text |-> OriginalInput]>>

(***************************************************************************)
(* replace_while.py with --replacewhile.  Improvements and --diff are in   *)
(* tenths of a percent.                                                    *)
(***************************************************************************)
\* getattr(response, "output_text", ""): a text, possibly empty
OutputTexts == ApiTexts \cup {""}

\* calculate_improvement(prev, current)
CalculateImprovement(prev, current) ==
    IF prev = "" \/ current = "" THEN {FullImprovement}
    ELSE IF prev = current THEN {0}
    ELSE {SmallImprovement, LargeImprovement}

\* --diff: any float, 1.0 by default
Diffs == {0, DefaultDiff}

ReplaceWhileInit ==
    /\ FuzzIdle
    /\ ScanIdle
    /\ \E max \in 0..MaxLimit, diff \in Diffs, replace \in BOOLEAN :
         call = [fn |-> "replace_while", max |-> max, diff |-> diff,
                 replace |-> replace, iteration |-> 0,
                 current_text |-> OriginalInput, calls |-> <<>>,
                 iter_files |-> <<>>, updated |-> "no file",
                 input_file |-> OriginalInput, pc |-> "loop"]

InReplaceLoop ==
    /\ call.fn = "replace_while"
    /\ call.pc = "loop"
    /\ call.iteration < call.max

\* call_api returned None: break
CallApiFails ==
    /\ InReplaceLoop
    /\ call' = [call EXCEPT !.calls = Append(@, [ok |-> FALSE, text |-> ""]),
                            !.pc = "final"]
    /\ UNCHANGED <<fuzzVars, scanVars>>

\* call_api returned output_text: save it as the iteration's file, break when
\* the write failed or the improvement is under --diff after the first
\* iteration, else make it current_text
CallApiReturns ==
    /\ InReplaceLoop
    /\ \E output_text \in OutputTexts, written \in BOOLEAN :
       \E improvement \in CalculateImprovement(call.current_text, output_text) :
         LET stop == ~written \/ (call.iteration > 0 /\ improvement < call.diff)
         IN  call' = [call EXCEPT
                        !.calls = Append(@, [ok |-> TRUE, text |-> output_text]),
                        !.iter_files = IF written THEN Append(@, output_text) ELSE @,
                        !.current_text = IF stop THEN @ ELSE output_text,
                        !.iteration = IF stop THEN @ ELSE @ + 1,
                        !.pc = IF stop THEN "final" ELSE "loop"]
    /\ UNCHANGED <<fuzzVars, scanVars>>

\* while iteration < args.max is false
ReplaceLoopEnds ==
    /\ call.fn = "replace_while"
    /\ call.pc = "loop"
    /\ call.iteration >= call.max
    /\ call' = [call EXCEPT !.pc = "final"]
    /\ UNCHANGED <<fuzzVars, scanVars>>

\* final_output = current_text goes to <stem>_updated.utf8 and, with
\* --replace, over the input file; a failed write exits with status 1
WriteFinalOutput ==
    /\ call.fn = "replace_while"
    /\ call.pc = "final"
    /\ \E written \in BOOLEAN, replaced \in BOOLEAN :
         call' = [call EXCEPT
                    !.updated = IF written THEN call.current_text ELSE @,
                    !.input_file = IF written /\ call.replace /\ replaced
                                   THEN call.current_text ELSE @,
                    !.pc = IF written /\ (call.replace => replaced)
                           THEN "done" ELSE "exit 1"]
    /\ UNCHANGED <<fuzzVars, scanVars>>

ReplaceWhileNext ==
    \/ CallApiFails
    \/ CallApiReturns
    \/ ReplaceLoopEnds
    \/ WriteFinalOutput

SpecReplaceWhile == ReplaceWhileInit /\ [][ReplaceWhileNext]_vars

\* C28: with --replacewhile at most --max API calls are made, and the final
\* output written to <stem>_updated.utf8 (and over the input file with
\* --replace) is the output of the last API call that succeeded, also when
\* the loop stopped because the improvement fell under --diff (runs in which
\* every iteration file could be written).
C28_FinalOutputIsLastSuccessfulCall ==
    call.fn = "replace_while" =>
        LET oks == {i \in DOMAIN call.calls : call.calls[i].ok}
            last == CHOOSE i \in oks : \A j \in oks : j <= i
        IN  /\ Len(call.calls) <= call.max
            /\ (call.pc = "done" /\ oks # {} /\ Len(call.iter_files) = Cardinality(oks)) =>
                  /\ call.updated = call.calls[last].text
                  /\ call.replace => call.input_file = call.calls[last].text

(***************************************************************************)
(* Payload lengths over a fuzzing run.                                     *)
(***************************************************************************)
\* every payload a fuzzing run holds: the population, the generation evolve
\* is building and the one it returned
RunPayloads == Range(population) \cup Range(new_population) \cup Range(returned)

\* C29: over a whole fuzzing run every member of the initial population and
\* of every evolved generation has exactly the length of the protocol
\* template.
C29_PayloadLengthInvariant ==
    pc # "idle" =>
        \A q \in RunPayloads :
            \A t \in Templates(protocol) : Len(q) = Len(t)

\* an evolved generation, with a crossover child or mutated member in it, is
\* the population under test
C29_Witness ==
    /\ pc = "retest"
    /\ generation = 1
    /\ Len(population) >= PopulationSize
    /\ \E i, j \in DOMAIN population : population[i] # population[j]
    /\ \A q \in Range(population) : Len(q) = TemplateLen

(***************************************************************************)
(* evolve() on the response maps of a fuzzing run.                         *)
(***************************************************************************)
\* evolve is running on a response map that is not empty, for a protocol
\* whose signature is a byte string
EvolveOnEvaluatedMap ==
    /\ pc \in {"evolve", "evolve_loop"}
    /\ DOMAIN responses # {}
    /\ ProtocolSignatures(protocol).kind = "bytes"

\* C30: evolve() does not raise on any non-empty response map an evaluation
\* step can produce, maps with a single key and maps of empty responses
\* included; the tournament can always draw 2 candidates (stated for the
\* protocols on which fitness itself cannot raise).
C30_EvolveNeverRaises ==
    [][EvolveOnEvaluatedMap => pc' # "raised"]_vars

====
